---- MODULE Spec2Model ----
(***************************************************************************)
(* A model of yggcrawl: the concurrent crawl of an overlay network.        *)
(*                                                                         *)
(* main seeds one dhtPing goroutine; every dhtPing goroutine probes one    *)
(* (public key, coords) pair with bounded retries, records the outcome in  *)
(* dhtVisited under dhtMutex and, on the first success for a key, starts   *)
(* one nodeInfo goroutine and one dhtPing goroutine per rumour of the      *)
(* response.  main waits for dhtWaitGroup, then nodeInfoWaitGroup, then    *)
(* builds and writes the results.                                          *)
(*                                                                         *)
(* Granularity.  A section of code that runs under a write lock and does   *)
(* not block (map accesses, WaitGroup.Add, go statements) is one action;   *)
(* the deferred Unlock and Done that follow it are part of the same        *)
(* action.  Every remote call (DHTPing, GetNodeInfo) is an action of its   *)
(* own, so goroutines interleave between the dedup read, each attempt and  *)
(* the write section, as they do in the program.                           *)
(***************************************************************************)
EXTENDS Integers, Sequences, FiniteSets

\* ------------------------------------------------------------------------
\* Bounds and the environment
\* ------------------------------------------------------------------------

\* Largest value of the -retry flag that is explored (the flag is any int;
\* 0 and negative values behave alike: the retry loop body never runs).
MaxRetry == 2
MaxSleepRetry == 35

\* Public keys (hex encoded) of the nodes of the network; "S" is our own.
Keys == {"S", "X", "Y"}

\* n.core.Coords(): the crawler's own coordinates.
SelfCoords == <<>>

CoordsA == <<1>>
CoordsB == <<2>>

Rumour(k, c) == [PublicKey |-> k, Coords |-> c]

\* The networks explored: for every key the Infos of its DHT ping response.
\*   NetA : the seed knows nobody                      (Scenario A)
\*   NetB : the seed rumours X and Y, X rumours Y again (Scenario B)
\*   NetC : as NetB, but X rumours Y at other coordinates and Y rumours the
\*          seed back
NetA == [k \in Keys |-> <<>>]
NetB == [k \in Keys |->
           CASE k = "S" -> <<Rumour("X", CoordsA), Rumour("Y", CoordsA)>>
             [] k = "X" -> <<Rumour("Y", CoordsA)>>
             [] OTHER   -> <<>>]
NetC == [k \in Keys |->
           CASE k = "S" -> <<Rumour("X", CoordsA), Rumour("Y", CoordsA)>>
             [] k = "X" -> <<Rumour("Y", CoordsB)>>
             [] OTHER   -> <<Rumour("S", CoordsB)>>]
Networks == {NetA, NetB, NetC}

\* Bodies a GetNodeInfo call can deliver: well-formed JSON or garbage.
\* "nil" is the zero NodeInfoPayload the variable res starts with.
Payloads == {"json", "garbage"}

VARIABLES
  network,            \* the Infos every key answers a DHT ping with
  retryCount,         \* *defaultRetryCount
  mainPC,             \* position of main
  dhtWaitGroup,       \* n.dhtWaitGroup counter
  nodeInfoWaitGroup,  \* n.nodeInfoWaitGroup counter
  dhtVisited,         \* n.dhtVisited : key -> attempt
  nodeInfoVisited,    \* n.nodeInfoVisited : key -> parsed document
  dhtTasks,           \* the dhtPing goroutines, in the order of their go statement
  infoTasks,          \* the nodeInfo goroutines, in the order of their go statement
  res,                \* res.Meta of main
  writes,             \* number of ioutil.WriteFile calls
  console,            \* the numbers of the summary main prints at its end
  sleep               \* the last time.Sleep of a retry loop and its loop index

vars == <<network, retryCount, mainPC, dhtWaitGroup, nodeInfoWaitGroup,
          dhtVisited, nodeInfoVisited, dhtTasks, infoTasks, res, writes, console, sleep>>

\* ------------------------------------------------------------------------
\* Data
\* ------------------------------------------------------------------------

\* type attempt (the fields derived from the key alone are left out)
Attempt(c, f) == [Coords |-> c, Found |-> f]

\* The zero value a Go map read returns for a missing key.
ZeroAttempt == Attempt(<<>>, FALSE)

\* n.dhtVisited[key]
Lookup(m, k) == IF k \in DOMAIN m THEN m[k] ELSE ZeroAttempt

\* n.dhtVisited[key] = info
Store(m, k, v) == [x \in DOMAIN m \cup {k} |-> IF x = k THEN v ELSE m[x]]

\* The zero value of results.Meta
ZeroMeta == [NodesAttempted |-> 0, NodesSuccessful |-> 0, NodesFailed |-> 0,
             NodeInfoSuccessful |-> 0, NodeInfoFailed |-> 0]

\* ------------------------------------------------------------------------
\* The delay of the retry loops
\* ------------------------------------------------------------------------

\* time.Millisecond in nanoseconds, the unit of time.Duration
Millisecond == 1000000

\* rand.Intn(1000) is one of 0..999
RandLimit == 1000

\* The values of rand.Intn(1000) that are explored: the ends of its range
\* and the values next to the powers of two where a product first changes
\* sign
RandDraws == {0, 1, 2, 255, 256, 511, 512, 536, 537, RandLimit - 2, RandLimit - 1}

\* The flag's default
DefaultRetryCount == 5

\* time.Duration is an int64; Go's int has 32 or 64 bits with the platform
DurationBits == 64
IntSizes == {32, DurationBits}

RECURSIVE Pow2(_)
Pow2(n) == IF n = 0 THEN 1 ELSE 2 * Pow2(n - 1)

\* A machine integer that is a multiple of 2^shift is kept as the pair
\* (mant, shift) of value mant * 2^shift; every mant below has less than 31
\* bits.  Wrap is the two's-complement value of m * 2^shift in an integer
\* of the given width: the low bits - shift bits of m, read as signed.  A
\* shift by the width or more leaves nothing.
Wrap(m, shift, bits) ==
  IF shift >= bits THEN [mant |-> 0, shift |-> shift]
  ELSE LET w == bits - shift
       IN  IF w > 30 THEN [mant |-> m, shift |-> shift]
           ELSE LET u == m % Pow2(w)
                IN  [mant  |-> IF u >= Pow2(w - 1) THEN u - Pow2(w) ELSE u,
                     shift |-> shift]

\* rand.Intn(1000) * (1 << idx), in int
IntProduct(r, idx, bits) == Wrap(r, idx, bits)

\* time.Millisecond * time.Duration(p), in int64
DurationOf(p) == Wrap(p.mant * Millisecond, p.shift, DurationBits)

\* The argument of time.Sleep in pass idx of a retry loop, in nanoseconds
Backoff(r, idx, bits) == DurationOf(IntProduct(r, idx, bits))

\* No pass of a retry loop made yet
NoSleep(bits) == [idx |-> 0, r |-> 0, bits |-> bits,
                  delay |-> [mant |-> 0, shift |-> 0], slept |-> FALSE]

\* Nothing printed yet
NoSummary == [Processed |-> 0, WereFound |-> 0, NotFound |-> 0,
              WithNodeInfo |-> 0, WithoutNodeInfo |-> 0]

\* A goroutine at its first statement: go n.dhtPing(k, c) / go n.nodeInfo(k, c).
\* err is TRUE when err != nil.  Three fields are bookkeeping of the model:
\* calls counts the invocations of the remote call the retry loop has made
\* (it goes out of scope with idx when the loop is left), answered says that
\* an invocation returned without error, and outcome records how the
\* goroutine returned:
\*   dhtPing  : "duplicate" (dedup return), "first" (first response of the
\*              node), "repeat" (a success after the first), "failed" (a
\*              failure of a node not found before), "ignored" (a failure
\*              of a node found before)
\*   nodeInfo : "duplicate", "failed", "malformed", "stored"
NewDht(k, c) == [key |-> k, coords |-> c, pc |-> "check", idx |-> 0,
                 calls |-> 0, answered |-> FALSE, err |-> FALSE, infos |-> <<>>,
                 outcome |-> "running"]
NewInfo(k, c) == [key |-> k, coords |-> c, pc |-> "check", idx |-> 0,
                  calls |-> 0, answered |-> FALSE, err |-> FALSE, payload |-> "nil",
                  outcome |-> "running"]

Init ==
  /\ network \in Networks
  /\ retryCount \in 0..MaxRetry
  /\ mainPC = "start"
  /\ dhtWaitGroup = 0
  /\ nodeInfoWaitGroup = 0
  /\ dhtVisited = <<>>
  /\ nodeInfoVisited = <<>>
  /\ dhtTasks = <<>>
  /\ infoTasks = <<>>
  /\ res = ZeroMeta
  /\ writes = 0
  /\ console = NoSummary
  /\ sleep = NoSleep(DurationBits)


\* ------------------------------------------------------------------------
\* Helpers of the goroutines
\* ------------------------------------------------------------------------

\* A goroutine that has returned: its locals are gone, the arguments it was
\* started with stay on record.
\* Of a dhtPing goroutine the response it received stays on record as well.
DhtReturned(task, how) ==
  [NewDht(task.key, task.coords) EXCEPT !.pc = "done", !.outcome = how,
                                        !.infos = task.infos]
InfoReturned(task, how) ==
  [NewInfo(task.key, task.coords) EXCEPT !.pc = "done", !.outcome = how]

\* Position after the dedup read, and after a failed attempt: the loop
\* condition idx < *defaultRetryCount decides between another attempt and
\* the code that follows the loop.
AfterLoopTest(i, next) == IF i < retryCount THEN "retry" ELSE next

\* sync.WaitGroup: Add(1) and Done()
WgAddOne(c, n) == c + 1
WgAdd(c, n) == c + n
WgDoneForgotten(c) == c
WgDoneTwice(c) == c - 2
WgDone(c) == c - 1

\* nodeInfo: "if err := json.Unmarshal(res, &j); err != nil { fmt.Println(err) }
\* else { n.nodeInfoVisited[key] = j }"
ShouldStoreAlways(r) == TRUE
ShouldStore(r) == r.ok

\* sync.WaitGroup.Wait() returns
WgIdleNoWait(c) == TRUE
WgIdle(c) == c = 0

\* dhtPing: "if info := n.dhtVisited[key]; info.Found": the dedup test
AlreadyFoundNever(info) == FALSE
AlreadyFound(info) == info.Found

\* dhtPing: "if info.Found || !oldInfo.Found" guards the map write
ShouldWriteAlways(info, oldInfo) == TRUE
ShouldWriteOnlySuccess(info, oldInfo) == info.Found
ShouldWrite(info, oldInfo) == info.Found \/ ~oldInfo.Found

\* dhtPing: "if !oldInfo.Found && info.Found": the first response of a node
FirstResponseAnySuccess(oldInfo, info) == info.Found
FirstResponseNotFoundBefore(oldInfo, info) == ~oldInfo.Found
FirstResponseAlways(oldInfo, info) == TRUE
FirstResponse(oldInfo, info) == ~oldInfo.Found /\ info.Found

\* dhtPing: the goroutines of "for _, info := range res.Infos { go n.dhtPing }"
FanOutFirstOnly(infos) ==
  [i \in 1..(IF Len(infos) > 0 THEN 1 ELSE 0) |->
     NewDht(infos[i].PublicKey, infos[i].Coords)]
FanOut(infos) == [i \in 1..Len(infos) |-> NewDht(infos[i].PublicKey, infos[i].Coords)]

\* json.Unmarshal(res, &j): the zero payload and garbage do not parse
Unmarshal(p) == IF p = "json" THEN [ok |-> TRUE, j |-> "document"]
                ELSE [ok |-> FALSE, j |-> "null"]

\* ------------------------------------------------------------------------
\* main
\* ------------------------------------------------------------------------

\* n.dhtWaitGroup.Add(1); go n.dhtPing(pubkey, n.core.Coords())
MainStart ==
  /\ mainPC = "start"
  /\ dhtWaitGroup' = WgAdd(dhtWaitGroup, 1)
  /\ dhtTasks' = Append(dhtTasks, NewDht("S", SelfCoords))
  /\ mainPC' = "dhtWait"
  /\ UNCHANGED <<network, retryCount, nodeInfoWaitGroup, dhtVisited,
                 nodeInfoVisited, infoTasks, res, writes, console, sleep>>

\* n.dhtWaitGroup.Wait()
MainDhtWait ==
  /\ mainPC = "dhtWait"
  /\ WgIdle(dhtWaitGroup)
  /\ mainPC' = "infoWait"
  /\ UNCHANGED <<network, retryCount, dhtWaitGroup, nodeInfoWaitGroup, dhtVisited,
                 nodeInfoVisited, dhtTasks, infoTasks, res, writes, console, sleep>>

\* n.nodeInfoWaitGroup.Wait()
MainInfoWait ==
  /\ mainPC = "infoWait"
  /\ WgIdle(nodeInfoWaitGroup)
  /\ mainPC' = "aggregate"
  /\ UNCHANGED <<network, retryCount, dhtWaitGroup, nodeInfoWaitGroup, dhtVisited,
                 nodeInfoVisited, dhtTasks, infoTasks, res, writes, console, sleep>>

\* The counting loop of main: "if attempt.Found { found++ }"
CountFound(m) == Cardinality({k \in DOMAIN m : m[k].Found})

\* res.Meta as main fills it in
BuildMetaOfAttempted(visited, nodeinfo) ==
  LET attempted == Cardinality(DOMAIN visited)
      found     == Cardinality({k \in DOMAIN visited : visited[k].Found})
  IN  [NodeInfoSuccessful |-> Cardinality(DOMAIN nodeinfo),
       NodeInfoFailed     |-> attempted - Cardinality(DOMAIN nodeinfo),
       NodesAttempted     |-> attempted,
       NodesSuccessful    |-> found,
       NodesFailed        |-> attempted - found]
BuildMeta(visited, nodeinfo) ==
  LET attempted == Cardinality(DOMAIN visited)
      found     == CountFound(visited)
  IN  [NodeInfoSuccessful |-> Cardinality(DOMAIN nodeinfo),
       NodeInfoFailed     |-> found - Cardinality(DOMAIN nodeinfo),
       NodesAttempted     |-> attempted,
       NodesSuccessful    |-> found,
       NodesFailed        |-> attempted - found]

\* The five numbers of the fmt.Println calls that end main, by the text
\* that follows each number.
Summary(meta) ==
  [Processed       |-> meta.NodesAttempted,    \* "nodes were processed"
   WereFound       |-> meta.NodesSuccessful,   \* "nodes were found"
   NotFound        |-> meta.NodesFailed,       \* "nodes were not found"
   WithNodeInfo    |-> meta.NodesSuccessful,   \* "nodes responded with nodeinfo"
   WithoutNodeInfo |-> meta.NodesFailed]       \* "nodes did not respond with nodeinfo"

\* Both locks are taken, res is built, marshalled and handed to
\* ioutil.WriteFile (writes counts the calls, whatever the file system
\* answers); then the summary is printed.
MainAggregate ==
  /\ mainPC = "aggregate"
  /\ res' = BuildMeta(dhtVisited, nodeInfoVisited)
  /\ writes' = writes + 1
  /\ console' = Summary(res')
  /\ mainPC' = "done"
  /\ UNCHANGED <<network, retryCount, dhtWaitGroup, nodeInfoWaitGroup, dhtVisited,
                 nodeInfoVisited, dhtTasks, infoTasks, sleep>>

\* ------------------------------------------------------------------------
\* dhtPing
\* ------------------------------------------------------------------------

\* The dedup read under RLock: return (and Done) when the key is already
\* found, otherwise go on to the retry loop.
DhtCheck(t) ==
  /\ t \in DOMAIN dhtTasks
  /\ dhtTasks[t].pc = "check"
  /\ IF AlreadyFound(Lookup(dhtVisited, dhtTasks[t].key))
       THEN /\ dhtTasks' = [dhtTasks EXCEPT ![t] = DhtReturned(@, "duplicate")]
            /\ dhtWaitGroup' = WgDone(dhtWaitGroup)
       ELSE /\ dhtTasks' = [dhtTasks EXCEPT ![t].pc = AfterLoopTest(0, "write")]
            /\ UNCHANGED dhtWaitGroup
  /\ UNCHANGED <<network, retryCount, mainPC, nodeInfoWaitGroup, dhtVisited,
                 nodeInfoVisited, infoTasks, res, writes, console, sleep>>

\* One pass of the retry loop: sleep, n.core.DHTPing, break on success.
\* ok is the network's answer to this call.
DhtAttempt(t, ok) ==
  /\ t \in DOMAIN dhtTasks
  /\ dhtTasks[t].pc = "retry"
  /\ LET me   == dhtTasks[t]
         next == IF ok THEN "write" ELSE AfterLoopTest(me.idx + 1, "write")
     IN  dhtTasks' = [dhtTasks EXCEPT
           ![t].answered = ok,
           ![t].err      = ~ok,
           ![t].infos    = IF ok THEN network[me.key] ELSE <<>>,
           ![t].idx      = IF next = "retry" THEN @ + 1 ELSE 0,
           ![t].calls    = IF next = "retry" THEN @ + 1 ELSE 0,
           ![t].pc       = next]
  /\ UNCHANGED <<network, retryCount, mainPC, dhtWaitGroup, nodeInfoWaitGroup,
                 dhtVisited, nodeInfoVisited, infoTasks, res, writes, console, sleep>>

\* The section under dhtMutex.Lock(): the write-if-better update, the
\* nodeinfo request and the fan-out on a first response, then the deferred
\* Unlock and Done.
DhtWrite(t) ==
  /\ t \in DOMAIN dhtTasks
  /\ dhtTasks[t].pc = "write"
  /\ LET me      == dhtTasks[t]
         info    == Attempt(me.coords, ~me.err)
         oldInfo == Lookup(dhtVisited, me.key)
     IN  /\ dhtVisited' = IF ShouldWrite(info, oldInfo)
                            THEN Store(dhtVisited, me.key, info)
                            ELSE dhtVisited
         /\ IF FirstResponse(oldInfo, info)
              THEN /\ nodeInfoWaitGroup' = WgAdd(nodeInfoWaitGroup, 1)
                   /\ infoTasks' = Append(infoTasks, NewInfo(me.key, me.coords))
                   /\ dhtTasks' = [dhtTasks EXCEPT ![t] = DhtReturned(@, "first")]
                                  \o FanOut(me.infos)
                   /\ dhtWaitGroup' = WgDone(WgAdd(dhtWaitGroup, Len(me.infos)))
              ELSE /\ dhtTasks' = [dhtTasks EXCEPT ![t] =
                                     DhtReturned(@, IF info.Found THEN "repeat"
                                                    ELSE IF oldInfo.Found THEN "ignored"
                                                    ELSE "failed")]
                   /\ dhtWaitGroup' = WgDone(dhtWaitGroup)
                   /\ UNCHANGED <<nodeInfoWaitGroup, infoTasks>>
  /\ UNCHANGED <<network, retryCount, mainPC, nodeInfoVisited, res, writes, console, sleep>>

\* ------------------------------------------------------------------------
\* nodeInfo
\* ------------------------------------------------------------------------

\* The dedup read under RLock.
InfoCheck(t) ==
  /\ t \in DOMAIN infoTasks
  /\ infoTasks[t].pc = "check"
  /\ IF infoTasks[t].key \in DOMAIN nodeInfoVisited
       THEN /\ infoTasks' = [infoTasks EXCEPT ![t] = InfoReturned(@, "duplicate")]
            /\ nodeInfoWaitGroup' = WgDone(nodeInfoWaitGroup)
       ELSE /\ infoTasks' = [infoTasks EXCEPT ![t].pc = AfterLoopTest(0, "store")]
            /\ UNCHANGED nodeInfoWaitGroup
  /\ UNCHANGED <<network, retryCount, mainPC, dhtWaitGroup, dhtVisited,
                 nodeInfoVisited, dhtTasks, res, writes, console, sleep>>

\* One pass of the retry loop: sleep, n.core.GetNodeInfo, break on success;
\* when the loop ends with err != nil the goroutine returns.
InfoAttempt(t, ok, body) ==
  /\ t \in DOMAIN infoTasks
  /\ infoTasks[t].pc = "retry"
  /\ LET me   == infoTasks[t]
         next == IF ok THEN "store" ELSE AfterLoopTest(me.idx + 1, "done")
     IN  IF next = "done"
           THEN /\ infoTasks' = [infoTasks EXCEPT ![t] = InfoReturned(@, "failed")]
                /\ nodeInfoWaitGroup' = WgDone(nodeInfoWaitGroup)
           ELSE /\ infoTasks' = [infoTasks EXCEPT
                     ![t].answered = ok,
                     ![t].err      = ~ok,
                     ![t].payload  = IF ok THEN body ELSE "nil",
                     ![t].idx      = IF next = "retry" THEN @ + 1 ELSE 0,
                     ![t].calls    = IF next = "retry" THEN @ + 1 ELSE 0,
                     ![t].pc       = next]
                /\ UNCHANGED nodeInfoWaitGroup
  /\ UNCHANGED <<network, retryCount, mainPC, dhtWaitGroup, dhtVisited,
                 nodeInfoVisited, dhtTasks, res, writes, console, sleep>>

\* The section under nodeInfoMutex.Lock(): unmarshal and store, then the
\* deferred Unlock and Done.
InfoStore(t) ==
  /\ t \in DOMAIN infoTasks
  /\ infoTasks[t].pc = "store"
  /\ LET me == infoTasks[t]
         r  == Unmarshal(me.payload)
     IN  /\ nodeInfoVisited' = IF ShouldStore(r)
                                 THEN Store(nodeInfoVisited, me.key, r.j)
                                 ELSE nodeInfoVisited
         /\ infoTasks' = [infoTasks EXCEPT ![t] =
                           InfoReturned(@, IF r.ok THEN "stored" ELSE "malformed")]
  /\ nodeInfoWaitGroup' = WgDone(nodeInfoWaitGroup)
  /\ UNCHANGED <<network, retryCount, mainPC, dhtWaitGroup, dhtVisited,
                 dhtTasks, res, writes, console, sleep>>

\* ------------------------------------------------------------------------
\* Specification
\* ------------------------------------------------------------------------

\* Upper bounds of the number of goroutines: a key fans out at most once.
InfosLengths == {Len(net[k]) : net \in Networks, k \in Keys}
LongestInfos == CHOOSE n \in InfosLengths : \A m \in InfosLengths : m <= n
DhtIds  == 1..(1 + Cardinality(Keys) * LongestInfos)
InfoIds == 1..Cardinality(Keys)

Main == MainStart \/ MainDhtWait \/ MainInfoWait \/ MainAggregate

DhtStep(t) == DhtCheck(t) \/ (\E ok \in BOOLEAN : DhtAttempt(t, ok)) \/ DhtWrite(t)

InfoStep(t) ==
  \/ InfoCheck(t)
  \/ \E ok \in BOOLEAN, body \in Payloads : InfoAttempt(t, ok, body)
  \/ InfoStore(t)

Next ==
  \/ Main
  \/ \E t \in DhtIds : DhtStep(t)
  \/ \E t \in InfoIds : InfoStep(t)

Spec == Init /\ [][Next]_vars

\* Every remote call returns and the Go scheduler does not stop while a
\* goroutine can run: as long as some step is possible, a step is taken.
FairSpec == Spec /\ WF_vars(Next)

\* The retry loop alone, every call failing: for idx := 0; idx <
\* *defaultRetryCount; idx++ { time.Sleep(...); ... }, for the default retry
\* count and for a long one, on both widths of int.
BackoffInit ==
  /\ network = NetA
  /\ retryCount \in {DefaultRetryCount, MaxSleepRetry}
  /\ mainPC = "start"
  /\ dhtWaitGroup = 0
  /\ nodeInfoWaitGroup = 0
  /\ dhtVisited = <<>>
  /\ nodeInfoVisited = <<>>
  /\ dhtTasks = <<>>
  /\ infoTasks = <<>>
  /\ res = ZeroMeta
  /\ writes = 0
  /\ console = NoSummary
  /\ sleep \in {NoSleep(b) : b \in IntSizes}

\* One pass: r is what rand.Intn(1000) returns
SleepPass(r) ==
  /\ sleep.idx < retryCount
  /\ sleep' = [idx |-> sleep.idx + 1, r |-> r, bits |-> sleep.bits,
               delay |-> Backoff(r, sleep.idx, sleep.bits), slept |-> TRUE]
  /\ UNCHANGED <<network, retryCount, mainPC, dhtWaitGroup, nodeInfoWaitGroup,
                 dhtVisited, nodeInfoVisited, dhtTasks, infoTasks, res, writes,
                 console>>

BackoffNext == \E r \in RandDraws : SleepPass(r)

BackoffSpec == BackoffInit /\ [][BackoffNext]_vars

TypeOK ==
  /\ mainPC \in {"start", "dhtWait", "infoWait", "aggregate", "done"}
  /\ retryCount \in 0..MaxRetry
  /\ dhtWaitGroup \in Nat
  /\ nodeInfoWaitGroup \in Nat
  /\ DOMAIN dhtVisited \subseteq Keys
  /\ DOMAIN nodeInfoVisited \subseteq Keys
  /\ DOMAIN dhtTasks \subseteq DhtIds
  /\ DOMAIN infoTasks \subseteq InfoIds


\* ------------------------------------------------------------------------
\* State functions used by the properties
\* ------------------------------------------------------------------------

\* The discovery record of k says found
Found(k) == Lookup(dhtVisited, k).Found

\* The nodeInfo goroutines started for k so far
InfoStarts(k) == Cardinality({t \in DOMAIN infoTasks : infoTasks[t].key = k})

\* The dhtPing goroutines for k that returned in one of the given ways
DhtReturns(k, hows) ==
  {t \in DOMAIN dhtTasks : dhtTasks[t].key = k /\ dhtTasks[t].outcome \in hows}

\* ------------------------------------------------------------------------
\* C1..C4
\* ------------------------------------------------------------------------

\* C1: success is sticky.  In every step, a key whose record says found
\* keeps a record that says found, and no record is ever removed, whatever
\* probe result (success or retry-exhausted failure) the step writes.
C1_SuccessSticky ==
  [][/\ DOMAIN dhtVisited \subseteq DOMAIN dhtVisited'
     /\ \A k \in Keys : Found(k) => Found(k)']_vars

\* A failed probe of a key was processed after the key was found, and the
\* record still says found.
C1_Witness ==
  \E k \in Keys : Found(k) /\ DhtReturns(k, {"ignored"}) # {}

\* C2: for every key nodeInfo is started at most once, and it is started in
\* exactly the steps that take the key's record from not found to found;
\* such a step is the write section of a dhtPing goroutine for that key.
C2_NodeInfoOncePerKey ==
  /\ [](\A k \in Keys : InfoStarts(k) <= 1)
  /\ [][\A k \in Keys :
          /\ InfoStarts(k)' = InfoStarts(k) + (IF ~Found(k) /\ Found(k)' THEN 1 ELSE 0)
          /\ (~Found(k) /\ Found(k)') =>
               \E t \in DOMAIN dhtTasks :
                 /\ dhtTasks[t].key = k /\ dhtTasks[t].pc = "write"
                 /\ dhtTasks'[t].pc = "done"]_vars

\* Two probes of one key succeeded and one nodeInfo goroutine was started.
C2_Witness ==
  \E k \in Keys :
    /\ InfoStarts(k) = 1
    /\ DhtReturns(k, {"first"}) # {}
    /\ DhtReturns(k, {"repeat"}) # {}

\* C3: concurrent idempotence.  Whenever one or more dhtPing goroutines for
\* the same key and coordinates have written a successful probe, the key has
\* its one record, the record says found, exactly one of all the goroutines
\* for the key was the first response and exactly one nodeInfo goroutine was
\* started for the key.
C3_ConcurrentIdempotence ==
  \A k \in Keys :
    DhtReturns(k, {"first", "repeat"}) # {} =>
      /\ k \in DOMAIN dhtVisited
      /\ dhtVisited[k].Found
      /\ Cardinality(DhtReturns(k, {"first"})) = 1
      /\ InfoStarts(k) = 1

\* Two goroutines for the same key and coordinates were past the dedup
\* check together, both probes succeeded and both have been written.
C3_Witness ==
  \E k \in Keys : \E t, u \in DhtReturns(k, {"first", "repeat"}) :
    /\ t # u
    /\ dhtTasks[t].coords = dhtTasks[u].coords
    /\ InfoStarts(k) = 1

\* C4: two-phase completion.  main is past the discovery wait only when
\* every dhtPing goroutine has returned, and past the metadata wait only
\* when every goroutine has returned and both counters are zero; from then
\* on no goroutine is started and neither map is written.
AllDhtReturned == \A t \in DOMAIN dhtTasks : dhtTasks[t].pc = "done"
AllInfoReturned == \A t \in DOMAIN infoTasks : infoTasks[t].pc = "done"

\* The dhtPing goroutines for k that entered the retry loop, i.e. started the
\* sequence of n.core.DHTPing calls
DhtSearches(k) ==
  {t \in DOMAIN dhtTasks :
     /\ dhtTasks[t].key = k
     /\ \/ dhtTasks[t].pc = "retry"
        \/ /\ retryCount > 0
           /\ \/ dhtTasks[t].pc = "write"
              \/ dhtTasks[t].outcome \in {"first", "repeat", "failed", "ignored"}}

\* The goroutines that were started and have not returned yet
DhtRunning == {t \in DOMAIN dhtTasks : dhtTasks[t].pc # "done"}
InfoRunning == {t \in DOMAIN infoTasks : infoTasks[t].pc # "done"}

C4_TwoPhaseCompletion ==
  /\ [](mainPC \in {"infoWait", "aggregate", "done"} =>
          AllDhtReturned /\ dhtWaitGroup = 0)
  /\ [](mainPC \in {"aggregate", "done"} =>
          AllInfoReturned /\ nodeInfoWaitGroup = 0)
  /\ [][(mainPC \in {"aggregate", "done"}) =>
          (UNCHANGED <<dhtTasks, infoTasks, dhtVisited, nodeInfoVisited,
                       dhtWaitGroup, nodeInfoWaitGroup>>)]_vars

\* main is past both waits after a crawl that started goroutines of both
\* kinds, and has built the results.
C4_Witness ==
  /\ mainPC = "done"
  /\ Len(dhtTasks) >= 3
  /\ Len(infoTasks) >= 2


\* ------------------------------------------------------------------------
\* C5..C10
\* ------------------------------------------------------------------------

\* C5: retry bound.  A wrapped remote call with retryCount = k invokes the
\* collaborator at most k times; when no call succeeded it was invoked
\* exactly k times and the outcome is failure (err != nil); after a
\* successful call no further call is made and the outcome is success.
\* Stated of both wrappers in the step that leaves the retry loop, where n
\* is the number of invocations made and answered says that one succeeded.
C5_RetryBound ==
  /\ [](/\ \A t \in DOMAIN dhtTasks : dhtTasks[t].calls <= retryCount
        /\ \A t \in DOMAIN infoTasks : infoTasks[t].calls <= retryCount)
  /\ [][/\ \A t \in DOMAIN dhtTasks :
             LET me == dhtTasks[t]
                 to == dhtTasks'[t]
                 n  == IF me.pc = "retry" THEN me.calls + 1 ELSE 0
             IN  /\ (me.pc \in {"check", "retry"} /\ to.pc = "write") =>
                       /\ n <= retryCount
                       /\ IF to.answered THEN ~to.err
                                         ELSE n = retryCount /\ to.err
                 /\ me.pc \notin {"check", "retry"} => to.pc # "retry"
        /\ \A t \in DOMAIN infoTasks :
             LET me == infoTasks[t]
                 to == infoTasks'[t]
                 n  == IF me.pc = "retry" THEN me.calls + 1 ELSE 0
             IN  /\ (me.pc \in {"check", "retry"} /\ to.pc = "store") =>
                       /\ n <= retryCount
                       /\ IF to.answered THEN ~to.err
                                         ELSE n = retryCount /\ to.err
                 /\ (me.pc = "retry" /\ to.outcome = "failed") => n = retryCount
                 /\ me.pc \notin {"check", "retry"} => to.pc # "retry"]_vars

\* C6: aggregation.  Once main has built the results, with A records in
\* dhtVisited, S of them found, and I entries in nodeInfoVisited, res.Meta
\* holds attempted = A, successful = S, failed = A - S, nodeinfo successful
\* = I and nodeinfo failed = S - I.
C6_Aggregation ==
  mainPC = "done" =>
    LET A == Cardinality(DOMAIN dhtVisited)
        S == Cardinality({k \in Keys : Found(k)})
        I == Cardinality(DOMAIN nodeInfoVisited)
    IN  /\ res.NodesAttempted = A
        /\ res.NodesSuccessful = S
        /\ res.NodesFailed = A - S
        /\ res.NodeInfoSuccessful = I
        /\ res.NodeInfoFailed = S - I

\* The results were built from three records, two of them found, and one
\* nodeinfo entry.
C6_Witness ==
  /\ mainPC = "done"
  /\ Cardinality(DOMAIN dhtVisited) = 3
  /\ Cardinality({k \in Keys : Found(k)}) = 2
  /\ Cardinality(DOMAIN nodeInfoVisited) = 1

RumouredKeys ==
  {r.PublicKey : r \in UNION {{dhtTasks[t].infos[i] : i \in 1..Len(dhtTasks[t].infos)} :
                               t \in {u \in DOMAIN dhtTasks :
                                        dhtTasks[u].outcome \in {"first", "repeat"}}}}

\* C8: crawl closure.  Every successful DHT ping of a key returns the same
\* Infos (network) and every call returns.  When main has finished, the keys
\* of dhtVisited are our own key together with every key rumoured in the
\* response of a found key, and nodeInfo was started once for every found
\* key and for no other, however many goroutines the key was rumoured to.
C8_CrawlClosure ==
  mainPC = "done" =>
    /\ DOMAIN dhtVisited = {"S"} \cup RumouredKeys
    /\ \A k \in Keys : InfoStarts(k) = IF Found(k) THEN 1 ELSE 0
    /\ \A k \in Keys : Found(k) <=> DhtReturns(k, {"first"}) # {}
    /\ \A t \in DOMAIN dhtTasks :
         (dhtTasks[t].outcome \in {"first", "repeat"} /\ retryCount > 0) =>
           dhtTasks[t].infos = network[dhtTasks[t].key]

\* Scenario B has run to its end: three found records, Y rumoured to two
\* goroutines, one nodeInfo goroutine for Y.
C8_Witness ==
  /\ mainPC = "done"
  /\ retryCount > 0
  /\ \A k \in Keys : Found(k)
  /\ Cardinality(DhtReturns("Y", {"duplicate", "first", "repeat", "failed", "ignored"})) = 2
  /\ InfoStarts("Y") = 1
  /\ res.NodesAttempted = 3 /\ res.NodesSuccessful = 3

\* C9: malformed payload.  A nodeInfo goroutine whose payload does not
\* unmarshal leaves both maps as they are; its key is and stays absent from
\* nodeInfoVisited and its discovery record keeps saying found.
C9_MalformedPayload ==
  /\ [](\A t \in DOMAIN infoTasks :
          infoTasks[t].outcome = "malformed" =>
            /\ infoTasks[t].key \notin DOMAIN nodeInfoVisited
            /\ Found(infoTasks[t].key))
  /\ [][\A t \in DOMAIN infoTasks :
          (infoTasks[t].pc = "store" /\ ~Unmarshal(infoTasks[t].payload).ok
             /\ infoTasks'[t].pc = "done") =>
            (UNCHANGED <<nodeInfoVisited, dhtVisited>>)]_vars

\* A GetNodeInfo call succeeded with a body that did not unmarshal, while
\* another key has its nodeinfo stored.
C9_Witness ==
  /\ retryCount > 0
  /\ \E t \in DOMAIN infoTasks : infoTasks[t].outcome = "malformed"
  /\ DOMAIN nodeInfoVisited # {}

\* C10: termination.  Under fair scheduling both counters end at zero with
\* main finished; the results are written once and never more than once, and
\* only when both counters are zero and every goroutine has returned.
C10_Termination ==
  /\ <>[](mainPC = "done" /\ writes = 1 /\ dhtWaitGroup = 0 /\ nodeInfoWaitGroup = 0)
  /\ [](writes <= 1)
  /\ [](writes = 1 => /\ dhtWaitGroup = 0 /\ nodeInfoWaitGroup = 0
                      /\ AllDhtReturned /\ AllInfoReturned)

\* main has finished a crawl of four or more dhtPing goroutines and has
\* written the results.
C10_Witness ==
  /\ mainPC = "done"
  /\ writes = 1
  /\ Len(dhtTasks) >= 4
  /\ Len(infoTasks) >= 1

\* ------------------------------------------------------------------------
\* C11..C15
\* ------------------------------------------------------------------------

\* C11: counter pairing.  In every state each WaitGroup counter equals the
\* number of goroutines of its phase that were started and have not returned:
\* the Add is made with the start, every return path does one Done.  So the
\* counters are never negative and never zero while a goroutine of their
\* phase is unfinished.
C11_CounterPairing ==
  /\ dhtWaitGroup = Cardinality(DhtRunning)
  /\ nodeInfoWaitGroup = Cardinality(InfoRunning)
  /\ dhtWaitGroup >= 0 /\ nodeInfoWaitGroup >= 0
  /\ DhtRunning # {} => dhtWaitGroup > 0
  /\ InfoRunning # {} => nodeInfoWaitGroup > 0

\* Goroutines of both phases are running after a fan-out of two rumours,
\* and a dhtPing goroutine has already left by the dedup return.
C11_Witness ==
  /\ dhtWaitGroup >= 1
  /\ nodeInfoWaitGroup >= 2
  /\ \E t \in DOMAIN dhtTasks : dhtTasks[t].outcome = "duplicate"
  /\ \E t \in DOMAIN dhtTasks : Len(dhtTasks[t].infos) = 2

\* C12: the nodeinfo counter is incremented only in steps that start with
\* the dht counter above zero (the Add is made by a dhtPing goroutine that
\* has not yet done its Done); once the dht counter is back at zero after
\* the seed was started it stays zero and the nodeinfo counter only falls.
C12_InfoAddOnlyWhileDhtBusy ==
  /\ [][nodeInfoWaitGroup' > nodeInfoWaitGroup => dhtWaitGroup > 0]_vars
  /\ [][(mainPC # "start" /\ dhtWaitGroup = 0) =>
          (dhtWaitGroup' = 0 /\ nodeInfoWaitGroup' <= nodeInfoWaitGroup)]_vars

\* The dht counter is back at zero while nodeInfo goroutines are still
\* running and one of several has already returned.
C12_Witness ==
  /\ mainPC # "start"
  /\ dhtWaitGroup = 0
  /\ nodeInfoWaitGroup >= 1
  /\ Len(infoTasks) >= 3
  /\ \E t \in DOMAIN infoTasks : infoTasks[t].pc = "done"

\* C13: fan-out only on first success.  The only steps that start dhtPing
\* goroutines are main's seed and the write section of a dhtPing goroutine
\* whose probe succeeded while the record of its key did not say found; such
\* a step starts exactly one goroutine per rumour of its response, with the
\* rumour's key and coords.  A failed probe, or a success for a key already
\* found, starts none, so a key fans out at most once.
C13_FanOutOnFirstSuccess ==
  /\ [][\/ Len(dhtTasks') = Len(dhtTasks)
        \/ mainPC = "start"
        \/ \E t \in DOMAIN dhtTasks :
             LET me == dhtTasks[t]
             IN  /\ me.pc = "write" /\ dhtTasks'[t].pc = "done"
                 /\ ~me.err /\ ~Found(me.key)
                 /\ Len(dhtTasks') = Len(dhtTasks) + Len(me.infos)
                 /\ \A i \in 1..Len(me.infos) :
                      /\ dhtTasks'[Len(dhtTasks) + i].key = me.infos[i].PublicKey
                      /\ dhtTasks'[Len(dhtTasks) + i].coords = me.infos[i].Coords
                      /\ dhtTasks'[Len(dhtTasks) + i].pc = "check"]_vars
  /\ [][\A t \in DOMAIN dhtTasks :
          (dhtTasks[t].pc = "write" /\ dhtTasks'[t].pc = "done"
             /\ ~dhtTasks[t].err /\ ~Found(dhtTasks[t].key)) =>
            Len(dhtTasks') = Len(dhtTasks) + Len(dhtTasks[t].infos)]_vars
  /\ [](\A k \in Keys : Cardinality(DhtReturns(k, {"first"})) <= 1)

\* A first success fanned out two rumours and a later success for a key
\* already found started nothing: every goroutine has returned and there
\* are exactly the seed, its two rumours and one rumour of each of them.
C13_Witness ==
  /\ \E t \in DOMAIN dhtTasks :
       dhtTasks[t].outcome = "first" /\ Len(dhtTasks[t].infos) = 2
  /\ \E t \in DOMAIN dhtTasks :
       dhtTasks[t].outcome = "repeat" /\ Len(dhtTasks[t].infos) > 0
  /\ AllDhtReturned
  /\ Len(dhtTasks) = 5

\* C14: failure containment.  When a dhtPing goroutine's probe has used up
\* its retries, its write section records the key as not found unless the
\* record already says found, starts no nodeInfo and no dhtPing goroutine,
\* leaves every other key's record, the nodeinfo map and every other
\* goroutine alone, and does its one Done; and under fair scheduling the
\* crawl still runs to completion.
C14_FailureContained ==
  /\ [][\A t \in DOMAIN dhtTasks :
          LET me == dhtTasks[t]
          IN  (me.pc = "write" /\ dhtTasks'[t].pc = "done" /\ me.err) =>
                /\ dhtVisited' = IF Found(me.key) THEN dhtVisited
                                 ELSE Store(dhtVisited, me.key,
                                            Attempt(me.coords, FALSE))
                /\ \A k \in Keys \ {me.key} :
                     Lookup(dhtVisited', k) = Lookup(dhtVisited, k)
                /\ UNCHANGED <<infoTasks, nodeInfoWaitGroup, nodeInfoVisited>>
                /\ Len(dhtTasks') = Len(dhtTasks)
                /\ \A u \in DOMAIN dhtTasks \ {t} : dhtTasks'[u] = dhtTasks[u]
                /\ dhtWaitGroup' = dhtWaitGroup - 1]_vars
  /\ (\E t \in DOMAIN dhtTasks : dhtTasks[t].outcome \in {"failed", "ignored"})
       ~> (mainPC = "done" /\ writes = 1)

\* A probe failed for good and the crawl has finished with that key recorded
\* as not found, another key found and its nodeinfo stored.
C14_Witness ==
  /\ mainPC = "done"
  /\ \E k \in Keys :
       /\ DhtReturns(k, {"failed"}) # {}
       /\ k \in DOMAIN dhtVisited /\ ~Found(k)
       /\ InfoStarts(k) = 0
  /\ \E k \in Keys : Found(k) /\ k \in DOMAIN nodeInfoVisited
  /\ res.NodesFailed >= 1

\* C15: dedup early return.  A dhtPing goroutine whose dedup read finds its
\* key recorded as found returns at once: it makes no call, writes neither
\* map, starts no goroutine and changes nothing but the dht counter, which
\* it decrements by one.
C15_DedupReturn ==
  [][\A t \in DOMAIN dhtTasks :
       LET me == dhtTasks[t]
       IN  (me.pc = "check" /\ Found(me.key) /\ dhtTasks'[t] # me) =>
             /\ dhtTasks'[t].pc = "done"
             /\ dhtTasks'[t].outcome = "duplicate"
             /\ dhtTasks'[t].calls = 0 /\ ~dhtTasks'[t].answered
             /\ dhtWaitGroup' = dhtWaitGroup - 1
             /\ Len(dhtTasks') = Len(dhtTasks)
             /\ \A u \in DOMAIN dhtTasks \ {t} : dhtTasks'[u] = dhtTasks[u]
             /\ UNCHANGED <<dhtVisited, nodeInfoVisited, infoTasks,
                            nodeInfoWaitGroup, mainPC, res, writes, console, sleep>>]_vars

\* A goroutine returned by the dedup check while another dhtPing goroutine
\* and a nodeInfo goroutine were still running.
C15_Witness ==
  /\ \E t \in DOMAIN dhtTasks : dhtTasks[t].outcome = "duplicate"
  /\ DhtRunning # {}
  /\ InfoRunning # {}

\* ------------------------------------------------------------------------
\* C16..C20
\* ------------------------------------------------------------------------

\* C16: no repeated search.  For every key at most one dhtPing goroutine
\* enters the retry loop during the run: a goroutine started by a later
\* rumour of a key that is being searched, or was searched, does not start
\* the sequence of DHTPing calls again.
C16_SearchOncePerKey ==
  \A k \in Keys : Cardinality(DhtSearches(k)) <= 1

\* C18: found needs a real success.  Every step that takes a key's record
\* to found is the write section of a dhtPing goroutine for that key whose
\* last DHTPing call returned without error, whatever the retry count is.
C18_FoundNeedsSuccess ==
  [][\A k \in Keys :
       (~Found(k) /\ Found(k)') =>
         \E t \in DOMAIN dhtTasks :
           /\ dhtTasks[t].key = k
           /\ dhtTasks[t].pc = "write" /\ dhtTasks'[t].pc = "done"
           /\ dhtTasks[t].answered]_vars

\* C19: nodeinfo only for found keys.  Every key of the nodeinfo map has a
\* record that says found, so the nodeinfo map is never larger than the set
\* of found keys, and the nodeinfo-failed count of the written results is
\* the difference of the two sizes and never negative.
C19_NodeInfoWithinFound ==
  /\ \A k \in DOMAIN nodeInfoVisited : k \in DOMAIN dhtVisited /\ Found(k)
  /\ Cardinality(DOMAIN nodeInfoVisited) <= CountFound(dhtVisited)
  /\ mainPC = "done" =>
       /\ res.NodeInfoFailed >= 0
       /\ res.NodeInfoFailed =
            CountFound(dhtVisited) - Cardinality(DOMAIN nodeInfoVisited)

\* The crawl has finished with two nodeinfos stored, a found key without
\* nodeinfo and nothing else.
C19_Witness ==
  /\ mainPC = "done"
  /\ Cardinality(DOMAIN nodeInfoVisited) = 2
  /\ CountFound(dhtVisited) = 3
  /\ res.NodeInfoFailed = 1

\* C20: the printed summary agrees with the written results.  When main has
\* finished, the number printed before "nodes responded with nodeinfo" is
\* the size of the nodeinfo map (NodeInfoSuccessful) and the number printed
\* before "nodes did not respond with nodeinfo" is the number of found keys
\* minus that size (NodeInfoFailed).
C20_SummaryAgrees ==
  mainPC = "done" =>
    /\ console.WithNodeInfo = res.NodeInfoSuccessful
    /\ console.WithNodeInfo = Cardinality(DOMAIN nodeInfoVisited)
    /\ console.WithoutNodeInfo = res.NodeInfoFailed
    /\ console.WithoutNodeInfo =
         CountFound(dhtVisited) - Cardinality(DOMAIN nodeInfoVisited)

\* C17: backoff envelope.  The delay slept before attempt i is r * 2^i
\* milliseconds for the r in 0..999 drawn for it: it is not negative and
\* below 1000 * 2^i milliseconds for every i below the retry count, the
\* machine integers of the product never wrapping around.
C17_BackoffEnvelope ==
  sleep.slept =>
    /\ sleep.delay.shift = sleep.idx - 1
    /\ sleep.delay.mant = sleep.r * Millisecond
    /\ sleep.delay.mant >= 0
    /\ sleep.delay.mant < RandLimit * Millisecond

====
